---- MODULE Spec2Model ----
(***************************************************************************)
(* A model of app.py, the Streamlit dashboard script: the helpers          *)
(* load_csv, parse_dates and moving_avg, and the top-to-bottom script run  *)
(* ("processing cycle") that loads a table, normalizes its date column,    *)
(* filters it per domain, computes KPIs, draws charts and offers the       *)
(* download.                                                               *)
(*                                                                         *)
(* A DataFrame is a record [names, dtypes, cols]: the column names in      *)
(* column order, each column's dtype, and each column's cells by row       *)
(* position.  A cell is a record [k, v]:                                   *)
(*   k = "na"   a missing value (NaN / NaT)                                *)
(*   k = "str"  a string that spells the timestamp v ("2024-01-02 12:00")  *)
(*   k = "text" a string that spells no date (a category label, "n/a")     *)
(*   k = "num"  the number v                                               *)
(*   k = "ts"   the timestamp v, the result of pd.to_datetime              *)
(* Timestamps count in units of 1/StampsPerDay of a day from day 0.        *)
(***************************************************************************)
EXTENDS Integers, Sequences, FiniteSets, TLC

VARIABLES
    disk,       \* the CSV behind each data source, NoTable where there is none
    cache,      \* the memo of load_csv: the table it holds for each sample
    domain,     \* the data source of the running cycle
    live,       \* use_live_stocks
    pc,         \* the step the script run is at
    df,         \* the script's df
    obj,        \* which object df is: the memo's own table or a fresh one
    before,     \* the table the last filter or fetch step started from
    selA,       \* the region / ticker / team constraint of this cycle
    selB,       \* the player constraint of this cycle
    players,    \* line 172's list, computed before the team filter
    range,      \* the date-range constraint of this cycle
    warned,     \* st.warning was shown
    errAt,      \* the line that raised, "" while none did
    out,        \* the table offered for download
    pdIn, pdOut,              \* parse_dates alone: its argument and its result
    series, window, ma        \* moving_avg alone: its arguments and its result

pureVars == <<pdIn, pdOut, series, window, ma>>
cycleVars == <<disk, cache, domain, live, pc, df, obj, before, selA, selB,
               players, range, warned, errAt, out>>
vars == <<cycleVars, pureVars>>

----------------------------------------------------------------------------
(* Bounds of the model *)

NRows == 2          \* rows of a generated table
MaxStamp == 3       \* latest timestamp in a generated table
StampsPerDay == 2   \* timestamps per calendar day
MaxCols == 3        \* columns of a table handed to parse_dates alone
MaxLen == 4         \* length of a series handed to moving_avg alone
MaxVal == 2         \* largest number in such a series
MaxWindow == 5      \* largest window handed to moving_avg alone

----------------------------------------------------------------------------
(* Cells *)

NA == [k |-> "na", v |-> 0]
Str(s) == [k |-> "str", v |-> s]
Text(i) == [k |-> "text", v |-> i]
Num(n) == [k |-> "num", v |-> n]
Ts(s) == [k |-> "ts", v |-> s]

IsNA(c) == c.k = "na"

Injective(f) == \A i, j \in DOMAIN f : f[i] = f[j] => i = j

NoSeries == <<[k |-> "none", v |-> 0]>>
NoTable == [names |-> <<"-">>, dtypes |-> <<>>, cols |-> <<>>]

NCols(t) == Len(t.names)
NRowsOf(t) == IF Len(t.cols) = 0 THEN 0 ELSE Len(t.cols[1])
ColIdx(t, name) == {j \in 1..NCols(t) : t.names[j] = name}
HasCol(t, name) == ColIdx(t, name) # {}
\* df[name] of a table that has exactly one column of that name
Col(t, name) == t.cols[CHOOSE j \in ColIdx(t, name) : TRUE]
Dtype(t, name) == t.dtypes[CHOOSE j \in ColIdx(t, name) : TRUE]

----------------------------------------------------------------------------
(* pd.to_datetime on one column, as parse_dates uses it: it raises when a  *)
(* string spells no date, and converts strings and numbers (epoch offsets) *)
(* alike; a missing value stays missing.                                   *)

Parses(c) == c.k \in {"na", "str", "num", "ts"}
ToDatetimeRaises(col) == \E i \in 1..Len(col) : ~Parses(col[i])
ToDatetimeCell(c) == IF c.k \in {"str", "num", "ts"} THEN Ts(c.v) ELSE NA
ToDatetime(col) == [i \in 1..Len(col) |-> ToDatetimeCell(col[i])]

(* str.lower on the column names the model uses *)
Lower(name) ==
    CASE name = "Report_Date" -> "report_date"
      [] name = "Time" -> "time"
      [] name = "Date" -> "date"
      [] name = "Open" -> "open"
      [] name = "High" -> "high"
      [] name = "Low" -> "low"
      [] name = "Close" -> "close"
      [] OTHER -> name

(* "date" in s or "time" in s, for the lowered names the model uses *)
HasDateOrTime(s) == s \in {"date", "report_date", "time", "updated", "timestamp"}

IsDateLike(name) == HasDateOrTime(Lower(name))

RECURSIVE SelectIdx(_, _, _)
\* the positions 1..n that satisfy keep, ascending, from position j on
SelectIdx(keep, n, j) ==
    IF j > n THEN <<>>
    ELSE (IF keep[j] THEN <<j>> ELSE <<>>) \o SelectIdx(keep, n, j + 1)

(* line 25: the candidate columns, by position *)
DateCols(t) ==
    LET byName == SelectIdx([j \in 1..NCols(t) |-> IsDateLike(t.names[j])], NCols(t), 1)
        byType == SelectIdx([j \in 1..NCols(t) |-> t.dtypes[j] = "datetime64"], NCols(t), 1)
    IN IF byName # <<>> THEN byName ELSE byType

RECURSIVE FirstParsing(_, _, _)
\* lines 27-32: the first candidate, from position i of cands on, whose
\* to_datetime does not raise; 0 when every one raises
FirstParsing(t, cands, i) ==
    IF i > Len(cands) THEN 0
    ELSE IF ~ToDatetimeRaises(t.cols[cands[i]]) THEN cands[i]
    ELSE FirstParsing(t, cands, i + 1)

Renamed(t, j, name) == [t EXCEPT !.names[j] = name]
Coerced(t, j, dtype) == [t EXCEPT !.cols[j] = ToDatetime(t.cols[j]), !.dtypes[j] = dtype]

(* The column the name-match loop takes when it is not first in line: a    *)
(* loop that returns on the first candidate whether or not it parses.      *)
ParseDatesNoRetry(t, ilocDtype) ==
    LET cands == DateCols(t)
    IN IF cands # <<>> /\ ~ToDatetimeRaises(t.cols[cands[1]])
       THEN Renamed(Coerced(t, cands[1], "datetime64"), cands[1], "date")
       ELSE IF NCols(t) > 0 /\ ~ToDatetimeRaises(t.cols[1])
       THEN Renamed(Coerced(t, 1, ilocDtype), 1, "date")
       ELSE t

(* parse_dates, lines 23-39.  ilocDtype is the dtype the first column has  *)
(* after `df.iloc[:, 0] = pd.to_datetime(...)`: "datetime64" where pandas  *)
(* replaces the column, "object" where it writes the values into the       *)
(* existing object column (the pandas version decides).                    *)
ParseDates(t, ilocDtype) ==
    LET w == FirstParsing(t, DateCols(t), 1)
    IN IF w # 0
       THEN Renamed(Coerced(t, w, "datetime64"), w, "date")
       ELSE IF NCols(t) > 0 /\ ~ToDatetimeRaises(t.cols[1])
       THEN Renamed(Coerced(t, 1,
                IF t.dtypes[1] = "datetime64" THEN "datetime64" ELSE ilocDtype), 1, "date")
       ELSE t

(* The argument object after parse_dates returned: the assignments of      *)
(* lines 29 and 35 write into it, the renames of lines 30 and 36 do not.   *)
ParseDatesArgAfter(t, ilocDtype) ==
    [ParseDates(t, ilocDtype) EXCEPT !.names = t.names]

IlocDtypes == {"datetime64", "object"}

----------------------------------------------------------------------------
(* moving_avg, lines 41-43: series.rolling(window, min_periods=1).mean().  *)
(* pandas slides the window: it adds the entering observation, removes the *)
(* leaving one, counts the non-missing observations held, and yields       *)
(* sum / nobs where nobs >= min_periods, a missing value elsewhere.  The   *)
(* mean is kept as the fraction num / den.                                 *)

MinPeriods == 1

RECURSIVE RollAcc(_, _, _)
RollAcc(s, w, i) ==
    IF i = 0 THEN [sum |-> 0, nobs |-> 0]
    ELSE LET p == RollAcc(s, w, i - 1)
             a == IF IsNA(s[i]) THEN p
                  ELSE [sum |-> p.sum + s[i].v, nobs |-> p.nobs + 1]
         IN IF i > w /\ ~IsNA(s[i - w])
            THEN [sum |-> a.sum - s[i - w].v, nobs |-> a.nobs - 1]
            ELSE a

Mean(acc) == [k |-> "mean", num |-> acc.sum, den |-> acc.nobs]

(* A rolling mean that never removes the observation leaving the window *)
RECURSIVE ExpandAcc(_, _)
ExpandAcc(s, i) ==
    IF i = 0 THEN [sum |-> 0, nobs |-> 0]
    ELSE LET p == ExpandAcc(s, i - 1)
         IN IF IsNA(s[i]) THEN p ELSE [sum |-> p.sum + s[i].v, nobs |-> p.nobs + 1]

MovingAvgExpanding(s, w) ==
    [i \in 1..Len(s) |->
        LET a == ExpandAcc(s, i) IN IF a.nobs >= MinPeriods THEN Mean(a) ELSE NA]

MovingAvg(s, w) ==
    [i \in 1..Len(s) |->
        LET a == RollAcc(s, w, i) IN IF a.nobs >= MinPeriods THEN Mean(a) ELSE NA]

----------------------------------------------------------------------------
(* Row selection and the filters of the three domain branches *)

(* A row selection that loses the first row it selects *)
KeepRowsDropFirst(t, keep) ==
    LET idx == Tail(SelectIdx(keep, NRowsOf(t), 1) \o <<0>>)
        n == Len(idx) - 1
    IN [t EXCEPT !.cols = [j \in 1..Len(t.cols) |->
                              [r \in 1..(IF n < 0 THEN 0 ELSE n) |-> t.cols[j][idx[r]]]]]

(* df[mask]: the rows whose position satisfies keep, in their order *)
KeepRows(t, keep) ==
    LET idx == SelectIdx(keep, NRowsOf(t), 1)
    IN [t EXCEPT !.cols = [j \in 1..Len(t.cols) |->
                              [r \in 1..Len(idx) |-> t.cols[j][idx[r]]]]]

(* df[col].dropna().unique(): the choices a multiselect offers *)
Options(t, name) ==
    IF HasCol(t, name) THEN {c \in {Col(t, name)[i] : i \in 1..NRowsOf(t)} : ~IsNA(c)}
    ELSE {}

(* A filter that compares with the first selected value only *)
IsinFirstOnly(t, name, vals) ==
    KeepRows(t, [i \in 1..NRowsOf(t) |->
        /\ vals # {}
        /\ Col(t, name)[i] = CHOOSE c \in vals : \A d \in vals : c.v <= d.v])

(* df[df[col].isin(vals)] *)
Isin(t, name, vals) ==
    KeepRows(t, [i \in 1..NRowsOf(t) |-> Col(t, name)[i] \in vals])

(* A category constraint: on = the multiselect was shown and its selection *)
(* passed on, vals = the selection.  A date-range constraint: on = the     *)
(* date_input was shown and returned a (start, end) pair of calendar days. *)
NoSel == [on |-> FALSE, vals |-> {}]
Sel(vals) == [on |-> TRUE, vals |-> vals]
NoRange == [on |-> FALSE, lo |-> 0, hi |-> 0]
Range(lo, hi) == [on |-> TRUE, lo |-> lo, hi |-> hi]

(* lines 88-92 *)
CovidRegionFilter(t, c) ==
    IF HasCol(t, "region") /\ c.on /\ c.vals # {} THEN Isin(t, "region", c.vals) ELSE t

(* lines 130-133 *)
StocksTickerFilter(t, c) ==
    IF HasCol(t, "ticker") /\ c.on THEN Isin(t, "ticker", c.vals) ELSE t

(* lines 171, 174-176: the team multiselect exists when the list is not empty *)
SportsTeamFilter(t, c) ==
    IF Options(t, "team") # {} /\ c.on THEN Isin(t, "team", c.vals) ELSE t

(* lines 172, 178-181: opts is the list of line 172 *)
SportsPlayerFilter(t, opts, c) ==
    IF opts # {} /\ c.on /\ c.vals # {} THEN Isin(t, "player", c.vals) ELSE t

(* Timestamp.date() and pd.to_datetime(date) *)
ToDate(ts) == ts \div StampsPerDay
ToTimestamp(day) == day * StampsPerDay

(* lines 95, 136, 184: the date filter is entered *)
DateTyped(t) == HasCol(t, "date") /\ Dtype(t, "date") = "datetime64"

(* A range whose end day is exclusive *)
DateRangeFilterOpenEnd(t, r) ==
    IF DateTyped(t) /\ r.on
    THEN KeepRows(t, [i \in 1..NRowsOf(t) |->
            LET d == Col(t, "date")[i]
            IN ~IsNA(d) /\ d.v >= ToTimestamp(r.lo) /\ d.v < ToTimestamp(r.hi)])
    ELSE t

(* lines 95, 98-100 (136-141, 184-189): a comparison with NaT is False *)
DateRangeFilter(t, r) ==
    IF DateTyped(t) /\ r.on
    THEN KeepRows(t, [i \in 1..NRowsOf(t) |->
            LET d == Col(t, "date")[i]
            IN ~IsNA(d) /\ d.v >= ToTimestamp(r.lo) /\ d.v <= ToTimestamp(r.hi)])
    ELSE t

(* The timestamps of the date column that are not NaT *)
DateValues(t) == {c.v : c \in Options(t, "date")}
MinOf(S) == CHOOSE x \in S : \A y \in S : x <= y
MaxOf(S) == CHOOSE x \in S : \A y \in S : x >= y

(* lines 96-97: the ranges the date_input lets the user pick *)
RangeChoices(t) ==
    LET lo == ToDate(MinOf(DateValues(t)))
        hi == ToDate(MaxOf(DateValues(t)))
    IN {Range(p[1], p[2]) : p \in {q \in (lo..hi) \X (lo..hi) : q[1] <= q[2]}}

(* sort_values(keys): missing values last; the order of rows with equal    *)
(* keys is left to the sort, so every order of them is possible             *)
KeyLess(t, keys, a, b) ==
    \E m \in 1..Len(keys) :
        /\ \A l \in 1..(m - 1) : Col(t, keys[l])[a] = Col(t, keys[l])[b]
        /\ LET x == Col(t, keys[m])[a]
               y == Col(t, keys[m])[b]
           IN \/ ~IsNA(x) /\ IsNA(y)
              \/ ~IsNA(x) /\ ~IsNA(y) /\ x.v < y.v
Perms(n) == {f \in [1..n -> 1..n] : Injective(f)}
SortOrders(t, keys) ==
    {f \in Perms(NRowsOf(t)) :
        \A a, b \in 1..NRowsOf(t) : a < b => ~KeyLess(t, keys, f[b], f[a])}
Reordered(t, f) ==
    [t EXCEPT !.cols = [j \in 1..Len(t.cols) |->
                           [r \in 1..NRowsOf(t) |-> t.cols[j][f[r]]]]]

(* df[name] = cells, for a new column name *)
WithColumn(t, name, dtype, cells) ==
    [names |-> Append(t.names, name),
     dtypes |-> Append(t.dtypes, dtype),
     cols |-> Append(t.cols, cells)]

(* line 151 *)
PctChange(t) ==
    [i \in 1..NRowsOf(t) |->
        LET o == Col(t, "open")[i]
            c == Col(t, "close")[i]
        IN IF IsNA(o) \/ IsNA(c) THEN NA
           ELSE [k |-> "mean", num |-> (c.v - o.v) * 100, den |-> o.v]]

(* DataFrame.copy() hands back the same object *)
ObjAlias(o) == o
(* DataFrame.copy(), line 79 and line 145: a new object *)
ObjCopy(o) == "fresh"

----------------------------------------------------------------------------
(* The tables behind the data sources *)

Sources == {"covid", "stocks", "sports", "custom"}
Samples == {"covid", "stocks", "sports"}

Column(name, dtype, cells) == [name |-> name, dtype |-> dtype, cells |-> cells]
FromColumns(cs) ==
    [names |-> [j \in 1..Len(cs) |-> cs[j].name],
     dtypes |-> [j \in 1..Len(cs) |-> cs[j].dtype],
     cols |-> [j \in 1..Len(cs) |-> cs[j].cells]]

(* read_csv: a column of strings is an object column, an empty column a    *)
(* float64 column of NaN                                                   *)
TextDtype(cells) == IF \A i \in 1..Len(cells) : IsNA(cells[i]) THEN "float64" ELSE "object"

Stamps == 0..MaxStamp
Cats == {Text(1), Text(2)}
RowIds == [i \in 1..NRows |-> Num(i)]
OneCat == [i \in 1..NRows |-> Text(1)]

(* No date column, one of date strings, or one of strings that spell no date *)
DateOpts ==
    {<<>>}
    \cup {<<Column("date", "object", [i \in 1..NRows |-> Str(f[i])])>> : f \in [1..NRows -> Stamps]}
    \cup {<<Column("date", "object", [i \in 1..NRows |-> Text(9)])>>}

CatOpts(name) ==
    {<<>>} \cup {<<Column(name, TextDtype(c), c)>> : c \in [1..NRows -> Cats \cup {NA}]}

(* The CSV files a data source may stand for: covid_sample.csv,           *)
(* stocks_sample.csv, sports_sample.csv, or the upload                      *)
Prices ==
    <<Column("open", "int64", [i \in 1..NRows |-> Num(i)]),
      Column("high", "int64", [i \in 1..NRows |-> Num(i + 2)]),
      Column("low", "int64", [i \in 1..NRows |-> Num(i)]),
      Column("close", "int64", [i \in 1..NRows |-> Num(i + 1)])>>

SportsCats ==
    CatOpts("team")
    \cup CatOpts("player")
    \cup {c \o <<Column("player", "object", OneCat)>> : c \in CatOpts("team") \ {<<>>}}
    \cup {<<Column("team", "object", OneCat)>> \o c : c \in CatOpts("player") \ {<<>>}}

FilesOf(src) ==
    CASE src = "covid" ->
            {FromColumns(d \o r \o <<Column("cases", "int64", RowIds)>>) :
                d \in DateOpts, r \in CatOpts("region")}
      [] src = "stocks" ->
            {FromColumns(d \o k \o p \o <<Column("volume", "int64", RowIds)>>) :
                d \in DateOpts, k \in CatOpts("ticker"), p \in {<<>>, Prices}}
      [] src = "sports" ->
            {FromColumns(d \o c \o <<Column("points", "int64", RowIds)>>) :
                d \in DateOpts, c \in SportsCats}
      [] OTHER ->
            {FromColumns(d \o <<Column("cases", "int64", RowIds)>>) : d \in DateOpts}

(* One source has a file, or every source has a plain one *)
PlainDate == <<Column("date", "object", [i \in 1..NRows |-> Str(i - 1)])>>
PlainCat(name) == <<Column(name, "object", [i \in 1..NRows |-> IF i = 1 THEN Text(1) ELSE Text(2)])>>
PlainFile(src) ==
    CASE src = "covid" -> FromColumns(PlainCat("region") \o <<Column("cases", "int64", RowIds)>>)
      [] src = "stocks" ->
            FromColumns(PlainDate \o PlainCat("ticker") \o Prices \o <<Column("volume", "int64", RowIds)>>)
      [] src = "sports" ->
            FromColumns(PlainDate \o PlainCat("team") \o <<Column("points", "int64", RowIds)>>)
      [] OTHER -> FromColumns(PlainDate \o <<Column("cases", "int64", RowIds)>>)

OnlyFile(src, f) == [s \in Sources |-> IF s = src THEN f ELSE NoTable]

----------------------------------------------------------------------------
(* The live fetch of the stocks branch, lines 117-127 *)

(* What yf.download hands back: a frame indexed by the trading day, the    *)
(* index named "Date" or unnamed, with capitalised price columns; no rows  *)
(* for a ticker it does not know                                           *)
LiveFrames ==
    {[iname |-> nm,
      idx |-> [i \in 1..n |-> Ts((i - 1) * StampsPerDay)],
      t |-> FromColumns(
               <<Column("Open", "int64", [i \in 1..n |-> Num(i)]),
                 Column("High", "int64", [i \in 1..n |-> Num(i + 2)]),
                 Column("Low", "int64", [i \in 1..n |-> Num(i)]),
                 Column("Close", "int64", [i \in 1..n |-> Num(i + 1)])>>)] :
        nm \in {"Date", ""}, n \in {0, NRows}}

LowerNames(t) == [t EXCEPT !.names = [j \in 1..NCols(t) |-> Lower(t.names[j])]]
(* reset_index(): the index becomes the first column, "index" when unnamed *)
ResetIndex(iname, idx, t) ==
    [names |-> <<IF iname = "" THEN "index" ELSE iname>> \o t.names,
     dtypes |-> <<"datetime64">> \o t.dtypes,
     cols |-> <<idx>> \o t.cols]
RenameCol(t, from, to) ==
    [t EXCEPT !.names = [j \in 1..NCols(t) |-> IF t.names[j] = from THEN to ELSE t.names[j]]]

(* lines 123-125 *)
LivePost(frame) ==
    LET data == ResetIndex(frame.iname, frame.idx, LowerNames(frame.t))
        tick == [i \in 1..Len(frame.idx) |-> Text(1)]
    IN RenameCol(WithColumn(data, "ticker", "object", tick), "index", "date")

FailPoints == {"none", "import", "download", "post"}

(* A fetch that binds df to the downloaded frame before post-processing it *)
LiveFetchEarlyBind(cur, frame, failAt) ==
    CASE failAt = "none" -> [df |-> LivePost(frame), warned |-> FALSE]
      [] failAt = "post" -> [df |-> frame.t, warned |-> TRUE]
      [] OTHER -> [df |-> cur, warned |-> TRUE]

(* The try block: df is bound by its last statement only, and `except      *)
(* Exception` takes whatever an earlier statement raises                   *)
LiveFetch(cur, frame, failAt) ==
    IF failAt = "none" THEN [df |-> LivePost(frame), warned |-> FALSE]
    ELSE [df |-> cur, warned |-> TRUE]

----------------------------------------------------------------------------
(* The script run *)

Init ==
    /\ \/ \E src \in Sources : \E f \in FilesOf(src) : disk = OnlyFile(src, f)
       \/ disk = [s \in Sources |-> PlainFile(s)]
    /\ cache = [s \in Sources |-> NoTable]
    /\ domain = "none" /\ live = FALSE
    /\ pc = "idle"
    /\ df = NoTable /\ obj = "fresh"
    /\ before = NoTable /\ selA = NoSel /\ selB = NoSel /\ players = {}
    /\ range = NoRange /\ warned = FALSE /\ errAt = "" /\ out = NoTable
    /\ pdIn = NoTable /\ pdOut = NoTable
    /\ series = <<>> /\ window = 1 /\ ma = NoSeries

(* load_csv under st.cache_data: the file is read once per path *)
LoadCsv(src) == IF cache[src] # NoTable THEN cache[src] ELSE disk[src]

(* An exception leaves the script run: Streamlit shows it and waits *)
Fail(where) == pc' = "error" /\ errAt' = where

ForgetConstraints ==
    before' = NoTable /\ selA' = NoSel /\ selB' = NoSel /\ players' = {} /\ range' = NoRange

(* lines 47-76: the sidebar choices and the load.  A sample whose file is  *)
(* missing makes read_csv raise; no upload ends the run at st.stop().       *)
LoadData ==
    /\ pc \in {"idle", "done", "error", "stopped"}
    /\ \E mode \in Sources, lv \in BOOLEAN :
        /\ lv => mode = "stocks"
        /\ domain' = mode /\ live' = lv
        /\ IF mode = "custom"
           THEN /\ cache' = cache
                /\ df' = disk[mode] /\ obj' = "fresh" /\ errAt' = ""
                /\ pc' = IF disk[mode] = NoTable THEN "stopped" ELSE "normalize"
           ELSE IF disk[mode] = NoTable
           THEN /\ cache' = cache
                /\ df' = NoTable /\ obj' = "fresh"
                /\ Fail("read_csv")
           ELSE /\ cache' = [cache EXCEPT ![mode] = LoadCsv(mode)]
                /\ df' = LoadCsv(mode) /\ obj' = "memo" /\ errAt' = ""
                /\ pc' = "normalize"
    /\ ForgetConstraints
    /\ warned' = FALSE /\ out' = NoTable
    /\ UNCHANGED <<disk, pureVars>>

(* line 79: parse_dates(df.copy()).  parse_dates writes into the object it *)
(* is handed; that object is the memo's own table only if copy() did not   *)
(* make a new one.                                                         *)
Normalize ==
    /\ pc = "normalize"
    /\ \E d \in IlocDtypes :
        LET arg == ObjCopy(obj)
        IN /\ df' = ParseDates(df, d)
           /\ cache' = IF arg = "memo"
                       THEN [cache EXCEPT ![domain] = ParseDatesArgAfter(df, d)]
                       ELSE cache
           /\ obj' = IF ParseDates(df, d) = df THEN arg ELSE "fresh"
    /\ pc' = CASE domain = "covid" -> "region"
               [] domain = "stocks" -> IF live THEN "fetch" ELSE "ticker"
               [] domain = "sports" -> "team"
               [] OTHER -> "download"
    /\ UNCHANGED <<disk, domain, live, before, selA, selB, players, range, warned,
                   errAt, out, pureVars>>

(* lines 82-92 *)
CovidRegion ==
    /\ pc = "region"
    /\ before' = df
    /\ IF HasCol(df, "region")
       THEN \E s \in SUBSET Options(df, "region") :
               selA' = Sel(s) /\ df' = CovidRegionFilter(df, Sel(s))
       ELSE selA' = NoSel /\ df' = CovidRegionFilter(df, NoSel)
    /\ obj' = "fresh" /\ pc' = "date"
    /\ UNCHANGED <<disk, cache, domain, live, selB, players, range, warned, errAt,
                   out, pureVars>>

(* lines 95-100, 136-141, 184-189.  Where the column holds no timestamp    *)
(* min() is NaT and the date_input is handed NaT: it may raise, return no  *)
(* pair, or return a pair no row compares true with.  Where it holds some, *)
(* the user picks start <= end among the days offered, or has picked only  *)
(* the start so far, which `start, end = date_range` cannot unpack.        *)
DateStep ==
    /\ pc = "date"
    /\ before' = df
    /\ IF ~DateTyped(df)
       THEN range' = NoRange /\ df' = df /\ pc' = "kpi" /\ errAt' = errAt
       ELSE IF DateValues(df) = {}
       THEN \/ range' = NoRange /\ df' = df /\ Fail("date_input")
            \/ range' = NoRange /\ df' = df /\ pc' = "kpi" /\ errAt' = errAt
            \/ /\ range' = NoRange
               /\ df' = KeepRows(df, [i \in 1..NRowsOf(df) |-> FALSE])
               /\ pc' = "kpi" /\ errAt' = errAt
       ELSE \/ \E r \in RangeChoices(df) :
                 range' = r /\ df' = DateRangeFilter(df, r) /\ pc' = "kpi" /\ errAt' = errAt
            \/ range' = NoRange /\ df' = df /\ Fail("unpack")
    /\ obj' = "fresh"
    /\ UNCHANGED <<disk, cache, domain, live, selA, selB, players, warned, out, pureVars>>

CovidDate == domain = "covid" /\ DateStep
StocksDate == domain = "stocks" /\ DateStep
SportsDate == domain = "sports" /\ DateStep

(* line 85: the metric the selectbox holds, None when it has no option *)
CovidMetric(t) ==
    IF HasCol(t, "cases") THEN "cases" ELSE IF HasCol(t, "deaths") THEN "deaths" ELSE "None"

(* lines 102-108: sort_values("date") raises without the column, and       *)
(* .iloc[-1] raises on an empty series                                     *)
CovidKpi ==
    /\ pc = "kpi" /\ domain = "covid"
    /\ IF CovidMetric(df) # "None" /\ ~HasCol(df, "date") THEN Fail("sort_values")
       ELSE IF CovidMetric(df) # "None" /\ NRowsOf(df) = 0 THEN Fail("iloc")
       ELSE pc' = "chart" /\ errAt' = errAt
    /\ ForgetConstraints
    /\ UNCHANGED <<disk, cache, domain, live, df, obj, warned, out, pureVars>>

(* lines 110-112: px.line raises when x names no column *)
CovidChart ==
    /\ pc = "chart" /\ domain = "covid"
    /\ IF ~HasCol(df, "date") THEN Fail("px.line") ELSE pc' = "download" /\ errAt' = errAt
    /\ UNCHANGED <<disk, cache, domain, live, df, obj, before, selA, selB, players,
                   range, warned, out, pureVars>>

(* lines 117-127 *)
StocksFetch ==
    /\ pc = "fetch"
    /\ before' = df
    /\ \E frame \in LiveFrames, failAt \in FailPoints :
        LET r == LiveFetch(df, frame, failAt)
        IN df' = r.df /\ warned' = r.warned
    /\ obj' = "fresh" /\ pc' = "ticker"
    /\ UNCHANGED <<disk, cache, domain, live, selA, selB, players, range, errAt, out,
                   pureVars>>

(* lines 129-133 *)
StocksTicker ==
    /\ pc = "ticker"
    /\ before' = df
    /\ IF HasCol(df, "ticker")
       THEN \E s \in SUBSET Options(df, "ticker") :
               selA' = Sel(s) /\ df' = StocksTickerFilter(df, Sel(s))
       ELSE selA' = NoSel /\ df' = StocksTickerFilter(df, NoSel)
    /\ obj' = "fresh" /\ pc' = "date"
    /\ UNCHANGED <<disk, cache, domain, live, selB, players, range, warned, errAt,
                   out, pureVars>>

(* lines 143-153: the sorted copy gets the pct_change column *)
StocksKpi ==
    /\ pc = "kpi" /\ domain = "stocks"
    /\ IF HasCol(df, "ticker") /\ HasCol(df, "date")
       THEN \E f \in SortOrders(df, <<"ticker", "date">>) :
               LET sorted == Reordered(df, f)
                   target == ObjCopy("fresh")
                   new == IF HasCol(df, "open") /\ HasCol(df, "close")
                          THEN WithColumn(sorted, "pct_change", "float64", PctChange(sorted))
                          ELSE sorted
               IN /\ df' = new /\ obj' = target
                  /\ cache' = IF target = "memo" THEN [cache EXCEPT ![domain] = new]
                              ELSE cache
       ELSE df' = df /\ obj' = obj /\ cache' = cache
    /\ pc' = "chart"
    /\ ForgetConstraints
    /\ UNCHANGED <<disk, domain, live, warned, errAt, out, pureVars>>

(* lines 155-166: groupby("ticker") and d["date"] raise without the        *)
(* column, and px.line is asked for x="Date"                               *)
StocksCharts ==
    /\ pc = "chart" /\ domain = "stocks"
    /\ IF \A c \in {"open", "high", "low", "close"} : HasCol(df, c)
       THEN IF ~HasCol(df, "ticker") THEN Fail("groupby")
            ELSE IF NRowsOf(df) > 0 /\ Options(df, "ticker") # {} /\ ~HasCol(df, "date")
            THEN Fail("candlestick")
            ELSE IF ~HasCol(df, "Date") THEN Fail("px.line")
            ELSE pc' = "download" /\ errAt' = errAt
       ELSE IF HasCol(df, "close") /\ ~HasCol(df, "Date") THEN Fail("px.line")
       ELSE pc' = "download" /\ errAt' = errAt
    /\ UNCHANGED <<disk, cache, domain, live, df, obj, before, selA, selB, players,
                   range, warned, out, pureVars>>

(* lines 171-176 *)
SportsTeam ==
    /\ pc = "team"
    /\ before' = df
    /\ players' = Options(df, "player")
    /\ IF Options(df, "team") # {}
       THEN \E s \in SUBSET Options(df, "team") :
               selA' = Sel(s) /\ df' = SportsTeamFilter(df, Sel(s))
       ELSE selA' = NoSel /\ df' = SportsTeamFilter(df, NoSel)
    /\ obj' = "fresh" /\ pc' = "player"
    /\ UNCHANGED <<disk, cache, domain, live, selB, range, warned, errAt, out, pureVars>>

(* lines 178-181 *)
SportsPlayer ==
    /\ pc = "player"
    /\ before' = df
    /\ IF players # {}
       THEN \E s \in SUBSET players :
               selB' = Sel(s) /\ df' = SportsPlayerFilter(df, players, Sel(s))
       ELSE selB' = NoSel /\ df' = SportsPlayerFilter(df, players, NoSel)
    /\ obj' = "fresh" /\ pc' = "date"
    /\ UNCHANGED <<disk, cache, domain, live, selA, players, range, warned, errAt,
                   out, pureVars>>

(* lines 191-202: the sums, then the chart over df.sort_values("date") *)
SportsKpiChart ==
    /\ pc = "kpi" /\ domain = "sports"
    /\ IF (\E j \in 1..NCols(df) : df.dtypes[j] \in {"int64", "float64"}) /\ ~HasCol(df, "date")
       THEN Fail("sort_values")
       ELSE pc' = "download" /\ errAt' = errAt
    /\ ForgetConstraints
    /\ UNCHANGED <<disk, cache, domain, live, df, obj, warned, out, pureVars>>

(* lines 205-222: the view offered for download, sorted by date if there *)
Download ==
    /\ pc = "download"
    /\ IF HasCol(df, "date")
       THEN \E f \in SortOrders(df, <<"date">>) : out' = Reordered(df, f)
       ELSE out' = df
    /\ pc' = "done"
    /\ UNCHANGED <<disk, cache, domain, live, df, obj, before, selA, selB, players,
                   range, warned, errAt, pureVars>>

Next ==
    \/ LoadData \/ Normalize
    \/ CovidRegion \/ CovidDate \/ CovidKpi \/ CovidChart
    \/ StocksFetch \/ StocksTicker \/ StocksDate \/ StocksKpi \/ StocksCharts
    \/ SportsTeam \/ SportsPlayer \/ SportsDate \/ SportsKpiChart
    \/ Download

Spec == Init /\ [][Next]_vars

----------------------------------------------------------------------------
(* The two helpers on their own *)

PDNames == {"date", "Report_Date", "Time", "updated", "region"}
PDKinds == {"dates", "datesNA", "text", "mixed", "nums"}

(* What read_csv makes of a column of each kind: strings are object        *)
(* columns, numbers int64 columns                                          *)
PDColumn(kind) ==
    [i \in 1..NRows |->
        CASE kind = "dates" -> Str(i - 1)
          [] kind = "datesNA" -> IF i = NRows THEN NA ELSE Str(i)
          [] kind = "text" -> Text(i)
          [] kind = "mixed" -> IF i = 1 THEN Str(0) ELSE Text(i)
          [] OTHER -> Num(i)]
PDDtype(kind) == IF kind = "nums" THEN "int64" ELSE "object"


(* The table read_csv makes of columns named ns, of kinds ks *)
PDTable(ns, ks) ==
    [names |-> ns,
     dtypes |-> [j \in 1..Len(ns) |-> PDDtype(ks[j])],
     cols |-> [j \in 1..Len(ns) |-> PDColumn(ks[j])]]

SeriesCells == {NA} \cup {Num(n) : n \in 0..MaxVal}
SeriesInputs == UNION {[1..n -> SeriesCells] : n \in 0..MaxLen}

(* No script run: the cycle's variables stay as they are *)
NoCycle ==
    /\ disk = [s \in Sources |-> NoTable]
    /\ cache = [s \in Sources |-> NoTable]
    /\ domain = "none" /\ live = FALSE
    /\ pc = "idle"
    /\ df = NoTable /\ obj = "fresh"
    /\ before = NoTable /\ selA = NoSel /\ selB = NoSel /\ players = {}
    /\ range = NoRange /\ warned = FALSE /\ errAt = "" /\ out = NoTable

InitPD ==
    /\ \E n \in 0..MaxCols :
          \E ns \in [1..n -> PDNames], ks \in [1..n -> PDKinds] :
              Injective(ns) /\ pdIn = PDTable(ns, ks)
    /\ pdOut = NoTable
    /\ series = <<>> /\ window = 1 /\ ma = NoSeries
    /\ NoCycle

(* One call parse_dates(pdIn) *)
CallParseDates ==
    /\ pdOut = NoTable
    /\ \E d \in IlocDtypes : pdOut' = ParseDates(pdIn, d)
    /\ UNCHANGED <<pdIn, series, window, ma, cycleVars>>

SpecPD == InitPD /\ [][CallParseDates]_vars

InitMA ==
    /\ series \in SeriesInputs
    /\ window \in 1..MaxWindow
    /\ ma = NoSeries
    /\ pdIn = NoTable /\ pdOut = NoTable
    /\ NoCycle

(* One call moving_avg(series, window) *)
CallMovingAvg ==
    /\ ma = NoSeries
    /\ ma' = MovingAvg(series, window)
    /\ UNCHANGED <<pdIn, pdOut, series, window, cycleVars>>

SpecMA == InitMA /\ [][CallMovingAvg]_vars

----------------------------------------------------------------------------
(* Properties of the helpers *)

RECURSIVE SumAt(_, _)
\* the sum of the numbers of s at the positions of P
SumAt(s, P) ==
    IF P = {} THEN 0
    ELSE LET i == CHOOSE x \in P : TRUE IN s[i].v + SumAt(s, P \ {i})

Max2(a, b) == IF a >= b THEN a ELSE b
\* the non-missing positions of s among lo..hi
Present(s, lo, hi) == {j \in lo..hi : ~IsNA(s[j])}
\* the cell c is the mean of the numbers of s at the positions of P
\* (missing when P is empty)
IsMeanOf(c, s, P) ==
    IF P = {} THEN IsNA(c)
    ELSE c.k = "mean" /\ c.den > 0 /\ c.num * Cardinality(P) = SumAt(s, P) * c.den

\* C6: moving_avg returns a series of the same length whose element i is the
\* mean of the non-missing values among series[max(0, i-window+1) .. i] and is
\* missing exactly when all of them are missing; so for window = 1 it is the
\* input with missing values preserved, and for window >= len(series) its last
\* element is the mean of all non-missing values.
C6_WindowMean ==
    ma # NoSeries =>
        /\ Len(ma) = Len(series)
        /\ \A i \in 1..Len(series) :
              /\ IsMeanOf(ma[i], series, Present(series, Max2(1, i - window + 1), i))
              /\ IsNA(ma[i]) <=> Present(series, Max2(1, i - window + 1), i) = {}
        /\ window = 1 =>
              \A i \in 1..Len(series) :
                  IF IsNA(series[i]) THEN IsNA(ma[i])
                  ELSE ma[i].k = "mean" /\ ma[i].num = series[i].v * ma[i].den
        /\ (window >= Len(series) /\ Len(series) > 0) =>
              IsMeanOf(ma[Len(series)], series, Present(series, 1, Len(series)))

\* A window shorter than the series has slid past a number, a missing value
\* lies inside a window together with a number, and one window holds only
\* missing values.
C6_Witness ==
    /\ ma # NoSeries
    /\ Len(series) = MaxLen /\ window = 2
    /\ ~IsNA(series[1]) /\ series[1].v = MaxVal
    /\ IsNA(series[2]) /\ IsNA(series[3]) /\ ~IsNA(series[4])
    /\ IsNA(ma[3]) /\ ~IsNA(ma[4])

NameMatched(t) == {j \in 1..NCols(t) : IsDateLike(t.names[j])}
AllParse(col) == \A i \in 1..Len(col) : Parses(col[i])
\* the column the documented fallback order picks, 0 for give-up
Winner(t) ==
    LET good == {j \in NameMatched(t) : AllParse(t.cols[j])}
    IN IF good # {} THEN CHOOSE j \in good : \A g \in good : j <= g
       ELSE IF NCols(t) > 0 /\ AllParse(t.cols[1]) THEN 1
       ELSE 0

\* C7: parse_dates takes the first column, in column order, whose name holds
\* "date" or "time" and whose values all parse; failing that the first column
\* by position; failing that it returns the table unchanged.  Only the winning
\* column is renamed to "date" and coerced, every other column is unchanged.
C7_FallbackOrder ==
    pdOut # NoTable =>
        LET w == Winner(pdIn)
        IN /\ w = 0 => pdOut = pdIn
           /\ w # 0 =>
                /\ NCols(pdOut) = NCols(pdIn)
                /\ pdOut.names[w] = "date"
                /\ \A i \in 1..Len(pdIn.cols[w]) :
                      pdOut.cols[w][i].k \in {"ts", "na"}
                      /\ (IsNA(pdOut.cols[w][i]) <=> IsNA(pdIn.cols[w][i]))
                      /\ pdOut.cols[w][i].v = pdIn.cols[w][i].v
                /\ \A j \in 1..NCols(pdIn) :
                      j # w => /\ pdOut.names[j] = pdIn.names[j]
                               /\ pdOut.cols[j] = pdIn.cols[j]
                               /\ pdOut.dtypes[j] = pdIn.dtypes[j]

\* The first name-matched column does not parse and a later one wins, while
\* the first column by position would have parsed too.
C7_Witness ==
    /\ pdOut # NoTable
    /\ NCols(pdIn) = 3
    /\ pdIn.names = <<"region", "updated", "Report_Date">>
    /\ AllParse(pdIn.cols[1]) /\ ~AllParse(pdIn.cols[2]) /\ AllParse(pdIn.cols[3])
    /\ pdOut.names = <<"region", "updated", "date">>

\* Every name-matched column fails and the first column wins by position.
C7_WitnessPositional ==
    /\ pdOut # NoTable
    /\ pdIn.names = <<"region", "Time">>
    /\ ~AllParse(pdIn.cols[2])
    /\ pdOut.names = <<"date", "Time">>

\* C9: the output of parse_dates has no duplicate column names (at most one
\* column named "date"), given an input with unique column names.
C9_UniqueNames ==
    pdOut # NoTable => Injective(pdOut.names)

----------------------------------------------------------------------------
(* Properties of the script run *)

\* the rows of a table, each the tuple of its cells in column order
RowsOf(t) ==
    [i \in 1..NRowsOf(t) |-> [j \in 1..NCols(t) |-> t.cols[j][i]]]
PosOf(t, name) == CHOOSE j \in ColIdx(t, name) : TRUE
SameColumns(a, b) == a.names = b.names /\ a.dtypes = b.dtypes

\* A category filter has just run: which one, its constraint, and the list
\* its multiselect offered
AfterCategory == pc \in {"player", "date"} /\ domain \in Samples
LastColumn ==
    CASE domain = "covid" -> "region"
      [] domain = "stocks" -> "ticker"
      [] OTHER -> IF pc = "player" THEN "team" ELSE "player"
LastSel == IF domain = "sports" /\ pc = "date" THEN selB ELSE selA
Offered ==
    IF domain = "sports" /\ pc = "date" THEN players ELSE Options(before, LastColumn)

\* C1: in every domain branch and for every category filter, a constraint
\* passed with an empty allowed set filters the table to zero rows, and an
\* omitted constraint leaves the table unfiltered.
C1_EmptySetFiltersAll ==
    AfterCategory =>
        /\ (LastSel.on /\ LastSel.vals = {}) => NRowsOf(df) = 0
        /\ ~LastSel.on => df = before

\* C2 as claimed: a constraint whose allowed set is the whole list offered
\* returns all rows of the input, in the same order, missing values or not.
C2_AllValuesKeepsAll ==
    (AfterCategory /\ LastSel.on /\ LastSel.vals = Offered) => df = before

\* C2 as amended: a constraint whose allowed set is the whole (non-empty) list
\* offered returns, in the same order, exactly the rows whose value in that
\* column is not missing; so it returns all rows when no value is missing.
C2_AllValuesKeepsPresent ==
    (AfterCategory /\ LastSel.on /\ LastSel.vals = Offered) =>
        /\ SameColumns(df, before)
        /\ Offered # {} =>
              RowsOf(df) = SelectSeq(RowsOf(before),
                                     LAMBDA r : ~IsNA(r[PosOf(before, LastColumn)]))
        /\ (\A i \in 1..NRowsOf(before) : ~IsNA(Col(before, LastColumn)[i])) => df = before

\* Every value offered is selected and a row with a missing value is gone.
C2_Witness ==
    /\ AfterCategory /\ LastSel.on /\ LastSel.vals = Offered /\ Offered # {}
    /\ NRowsOf(before) = NRows
    /\ IsNA(Col(before, LastColumn)[1])
    /\ NRowsOf(df) = NRows - 1

\* C3: when the normalized table has no column named "date", the cycle in any
\* domain reaches its end without entering an error state.
C3_NoDateNoError ==
    ~(pc = "error" /\ errAt # "read_csv" /\ ~HasCol(df, "date"))

C5_DateRangeInclusive ==
    pc = "kpi" =>
        /\ range.on =>
              /\ SameColumns(df, before)
              /\ RowsOf(df) = SelectSeq(RowsOf(before),
                    LAMBDA r : LET d == r[PosOf(before, "date")]
                               IN /\ d.k = "ts"
                                  /\ ToTimestamp(range.lo) <= d.v
                                  /\ d.v <= ToTimestamp(range.hi))
        /\ ~DateTyped(before) => df = before /\ ~range.on

\* A row dated exactly start = end is kept and a later row of that day is not.
C5_Witness ==
    /\ pc = "kpi" /\ range.on /\ range.lo = range.hi
    /\ NRowsOf(before) = NRows /\ NRowsOf(df) = 1
    /\ Col(df, "date")[1].v = ToTimestamp(range.hi)
    /\ \E i \in 1..NRows : Col(before, "date")[i].v > ToTimestamp(range.hi)

\* Both ends of a two-day range hold a row, and both rows are kept.
C5_WitnessEnds ==
    /\ pc = "kpi" /\ range.on /\ range.lo < range.hi
    /\ NRowsOf(df) = NRows
    /\ Col(df, "date")[1].v = ToTimestamp(range.lo)
    /\ Col(df, "date")[NRows].v = ToTimestamp(range.hi)

\* the domain's filter steps, with this cycle's constraints, on table t
Refilter(t) ==
    CASE domain = "covid" -> DateRangeFilter(CovidRegionFilter(t, selA), range)
      [] domain = "stocks" -> DateRangeFilter(StocksTickerFilter(t, selA), range)
      [] OTHER ->
            DateRangeFilter(
                SportsPlayerFilter(SportsTeamFilter(t, selA), Options(t, "player"), selB),
                range)

\* C8: applying the domain's filter steps again, with the same constraints, to
\* the filtered table yields the same rows in the same order.
C8_FilterIdempotent ==
    (pc = "kpi" /\ domain \in Samples) => Refilter(df) = df

\* A category constraint and a date range have both removed a row.
C8_Witness ==
    /\ pc = "kpi" /\ domain = "sports"
    /\ selA.on /\ selA.vals # {} /\ range.on
    /\ NRowsOf(before) = NRows /\ NRowsOf(df) = 1

\* C10: the table the memoized loader holds is the one first loaded, whatever
\* cycles have run, and every cycle over a sample starts from it.
C10_MemoUntouched ==
    /\ \A s \in Sources : cache[s] \in {NoTable, disk[s]}
    /\ (pc = "normalize" /\ domain \in Samples) => df = disk[domain]

\* Cycles over two samples have run, parse_dates has coerced a column and the
\* stocks KPI has added pct_change.
C10_Witness ==
    /\ cache["sports"] # NoTable /\ cache["stocks"] # NoTable
    /\ domain = "stocks" /\ pc = "chart"
    /\ HasCol(df, "pct_change") /\ DateTyped(df)
    /\ ~HasCol(cache["stocks"], "pct_change")

====
